---- MODULE Spec2Model ----
(***************************************************************************)
(* Model of backend/app.py: the POST /snow-data handler get_snow_data and  *)
(* its helpers calculate_snow_area and calculate_permanent_snow, together  *)
(* with the part of the Earth Engine service the handler's queries rely    *)
(* on (the image catalogue, filtering, sorting, reductions, thumbnails).   *)
(*                                                                         *)
(* Earth Engine objects are lazy: every getInfo()/getThumbURL() is one     *)
(* blocking round trip that evaluates its expression against the catalogue *)
(* as it is at that moment.  Each such call is modelled by two steps, the  *)
(* request leaving the handler (Issue) and the reply or the exception      *)
(* coming back; the handler's own code between two calls is part of the    *)
(* step that receives the reply.                                           *)
(***************************************************************************)
EXTENDS Integers, Sequences, FiniteSets, TLC

VARIABLES
    request,     \* the HTTP request body as Flask hands it to the handler
    catalog,     \* the service's image catalogue, in system order
    churn,       \* number of catalogue changes during the request
    pc,          \* position of the handler
    h,           \* the handler's local variables
    calls,       \* every call sent to the imagery service, in order
    inflight,    \* indices into calls of the calls not yet answered
    response,    \* the HTTP response, None until the handler returns
    logged,      \* what the handler printed about an exception
    permLog,     \* history: what calculate_permanent_snow returned, per month
    renderFailed,\* history: months whose thumbnail rendering raised
    idView       \* history: the monthly collection the service saw at each id() call

vars == <<request, catalog, churn, pc, h, calls, inflight, response, logged,
          permLog, renderFailed, idView>>

----------------------------------------------------------------------------
(* Bounds of the model. *)

MaxImages == 3
MaxChurn == 1

----------------------------------------------------------------------------
(* Python values. *)

None == <<>>
Some(v) == <<v>>
IsNone(x) == x = <<>>
Val(x) == x[1]

Infinity == 1000000
PixelArea == 100
CloudCeiling == 20

\* a running sum where the code keeps a running maximum
PySum(a, b) == a + b
PyMax(a, b) == IF a >= b THEN a ELSE b
PyMin(a, b) == IF a <= b THEN a ELSE b

----------------------------------------------------------------------------
(* JSON values of the request body.  A string is the sequence of its       *)
(* character codes, a JSON object a function from its keys, a JSON array a *)
(* sequence.                                                               *)

JNull == [t |-> "null"]
JStr(s) == [t |-> "str", s |-> s]
JObj(o) == [t |-> "obj", o |-> o]
JList(l) == [t |-> "list", l |-> l]

EmptyDict == [k \in {} |-> JNull]

\* dict.get(key): None when the key is absent, and JSON null is None too
DictGet(o, key) ==
    IF key \in DOMAIN o /\ o[key] # JNull THEN Some(o[key]) ELSE None

\* Python truthiness of a value returned by dict.get
Truthy(x) ==
    /\ ~IsNone(x)
    /\ CASE Val(x).t = "str" -> Val(x).s # <<>>
         [] Val(x).t = "obj" -> DOMAIN Val(x).o # {}
         [] Val(x).t = "list" -> Val(x).l # <<>>
         [] OTHER -> FALSE

----------------------------------------------------------------------------
(* Strings and dates, as the service formats and parses them. *)

Dash == 45
Digit(d) == 48 + d
Pad2(n) == <<Digit((n \div 10) % 10), Digit(n % 10)>>
Pad4(n) == <<Digit((n \div 1000) % 10), Digit((n \div 100) % 10)>> \o Pad2(n)

\* ee.Date.format('YYYY-MM') and ee.Date.format('YYYY-MM-DD') of <<y, m, d>>
FormatMonth(date) == Pad4(date[1]) \o <<Dash>> \o Pad2(date[2])
FormatDate(date) == FormatMonth(date) \o <<Dash>> \o Pad2(date[3])

Num2(s, i) == (s[i] - 48) * 10 + (s[i + 1] - 48)
\* the service's reading of a 'YYYY-MM-DD' string
ParseDate(s) == <<Num2(s, 1) * 100 + Num2(s, 3), Num2(s, 6), Num2(s, 9)>>

\* order of dates on the time line
DateLess(a, b) ==
    \/ a[1] < b[1]
    \/ a[1] = b[1] /\ a[2] < b[2]
    \/ a[1] = b[1] /\ a[2] = b[2] /\ a[3] < b[3]

\* string order (code point by code point, a proper prefix first)
RECURSIVE StrLess(_, _)
StrLess(a, b) ==
    IF a = <<>> THEN b # <<>>
    ELSE IF b = <<>> THEN FALSE
    ELSE IF Head(a) # Head(b) THEN Head(a) < Head(b)
    ELSE StrLess(Tail(a), Tail(b))

----------------------------------------------------------------------------
(* The imagery service: the Sentinel-2 catalogue and the queries used.     *)
(* An image has an id, an acquisition date, a cloud percentage, a          *)
(* footprint (a lon/lat box), and the values its reductions over the       *)
(* region give: the NDSI snow-pixel sum, the B3 valid-pixel count and the  *)
(* minimum SRTM elevation under the snow mask (None where the reduction    *)
(* has no unmasked pixel).                                                 *)

Image(id, date, cloud, box, snow, valid, elev) ==
    [id |-> id, date |-> date, cloud |-> cloud, box |-> box,
     snow |-> snow, valid |-> valid, elev |-> elev]

\* footprints: <<west, east, south, north>>
FullTile == <<19, 22, 9, 12>>
HalfTile == <<19, 20, 9, 12>>

ImagePool ==
    << Image(1, <<2024, 1, 5>>, 10, FullTile, Some(3), Some(10), Some(15)),
       Image(2, <<2024, 1, 20>>, 5, FullTile, Some(5), Some(10), Some(12)),
       Image(3, <<2023, 12, 10>>, 15, FullTile, Some(8), Some(10), Some(0)),
       Image(4, <<2024, 2, 10>>, 5, FullTile, Some(0), Some(10), None),
       Image(5, <<2024, 2, 15>>, 5, FullTile, Some(7), Some(10), Some(-2)),
       Image(6, <<2024, 3, 3>>, 25, FullTile, Some(9), Some(10), Some(3)),
       Image(7, <<2024, 1, 10>>, 1, HalfTile, Some(8), Some(10), Some(4)),
       Image(8, <<2024, 4, 1>>, 2, FullTile, Some(6), Some(10), Some(5)),
       Image(9, <<2023, 12, 20>>, 3, FullTile, None, Some(0), None) >>

InBox(p, box) ==
    /\ box[1] <= p[1] /\ p[1] <= box[2]
    /\ box[3] <= p[2] /\ p[2] <= box[4]

\* the vertices of a polygon given as rings of <<lon, lat>> points
Vertices(roi) == UNION {{roi[r][k] : k \in DOMAIN roi[r]} : r \in DOMAIN roi}
\* .filterBounds(roi): the footprint meets the region (here: holds a vertex)
FilterBounds(col, roi) ==
    SelectSeq(col, LAMBDA img : \E p \in Vertices(roi) : InBox(p, img.box))

\* .filterDate(start, end): start inclusive, end exclusive
FilterDate(col, start, end) ==
    SelectSeq(col, LAMBDA img : /\ ~DateLess(img.date, ParseDate(start))
                                /\ DateLess(img.date, ParseDate(end)))

\* .filter(ee.Filter.lt('CLOUDY_PIXEL_PERCENTAGE', 20))
FilterCloud(col) == SelectSeq(col, LAMBDA img : img.cloud < CloudCeiling)

\* .filter(ee.Filter.contains('.geo', roi)): the footprint holds the region
FilterContains(col, roi) ==
    SelectSeq(col, LAMBDA img : \A p \in Vertices(roi) : InBox(p, img.box))

\* the collection left in catalogue order
SortByCloudSkipped(col) == col

\* .sort('CLOUDY_PIXEL_PERCENTAGE', True): ascending, equal keys keep their order
RECURSIVE InsertByCloud(_, _)
InsertByCloud(img, sorted) ==
    IF sorted = <<>> THEN <<img>>
    ELSE IF img.cloud < Head(sorted).cloud THEN <<img>> \o sorted
    ELSE <<Head(sorted)>> \o InsertByCloud(img, Tail(sorted))

RECURSIVE SortByCloud(_)
SortByCloud(col) ==
    IF col = <<>> THEN <<>>
    ELSE InsertByCloud(col[Len(col)], SortByCloud(SubSeq(col, 1, Len(col) - 1)))

\* the filtered, sorted collection of lines 170-177 over a catalogue
Collection(cat, roi, start, end) ==
    SortByCloud(FilterContains(FilterCloud(FilterDate(FilterBounds(cat, roi),
                                                     start, end)), roi))

\* the 'month' property set on every image (line 187)
MonthOf(img) == FormatMonth(img.date)

\* .aggregate_array('month')
AggregateMonths(col) == [i \in 1..Len(col) |-> MonthOf(col[i])]

\* .distinct(): first occurrences, in order
RECURSIVE Distinct(_)
Distinct(s) ==
    IF s = <<>> THEN <<>>
    ELSE LET front == Distinct(SubSeq(s, 1, Len(s) - 1))
             last == s[Len(s)]
         IN IF \E i \in DOMAIN front : front[i] = last THEN front
            ELSE Append(front, last)

\* .sort() of a list of strings
RECURSIVE InsertString(_, _)
InsertString(x, sorted) ==
    IF sorted = <<>> THEN <<x>>
    ELSE IF StrLess(x, Head(sorted)) THEN <<x>> \o sorted
    ELSE <<Head(sorted)>> \o InsertString(x, Tail(sorted))

RECURSIVE SortStrings(_)
SortStrings(s) ==
    IF s = <<>> THEN <<>>
    ELSE InsertString(s[Len(s)], SortStrings(SubSeq(s, 1, Len(s) - 1)))

\* the list of months without the final .sort()
DistinctMonthsUnsorted(col) == Distinct(AggregateMonths(col))

\* collection_with_month.aggregate_array('month').distinct().sort()
DistinctMonths(col) == SortStrings(Distinct(AggregateMonths(col)))

\* collection_with_month.filterMetadata('month', 'equals', month)
MonthlyCol(col, month) == SelectSeq(col, LAMBDA img : MonthOf(img) = month)

\* roi.area(): here the area of the region's bounding box
RoiArea(roi) ==
    LET V == Vertices(roi)
        Lo(k) == CHOOSE x \in {p[k] : p \in V} : \A p \in V : x <= p[k]
        Hi(k) == CHOOSE x \in {p[k] : p \in V} : \A p \in V : x >= p[k]
    IN IF V = {} THEN 0 ELSE (Hi(1) - Lo(1)) * (Hi(2) - Lo(2))

\* getThumbURL: the URL names the rendered product and the image
ThumbURL(kind, img) == <<kind, img.id>>
----------------------------------------------------------------------------
(* Requests and catalogues the handler is run on. *)

PolygonStr == <<80, 111, 108, 121, 103, 111, 110>>
Ring == << <<10, 20>>, <<10, 21>>, <<11, 20>> >>
ShortRing == << <<10, 20>>, <<10>> >>
Geometry(coords) ==
    JObj([type |-> JStr(PolygonStr), coordinates |-> JList(coords)])

\* None: the key is absent from the body
GeometryInputs ==
    {None, Some(JNull), Some(JObj(EmptyDict)), Some(JStr(<<120>>)),
     Some(Geometry(<<Ring>>)), Some(Geometry(<<ShortRing>>))}
StartInputs == {None, Some(JStr(<<>>)), Some(JStr(FormatDate(<<2023, 12, 1>>)))}
EndInputs == {None, Some(JStr(FormatDate(<<2024, 4, 1>>)))}

Body(g, s, e) ==
    LET given(k) == CASE k = "geometry" -> g
                      [] k = "start_date" -> s
                      [] OTHER -> e
    IN [k \in {f \in {"geometry", "start_date", "end_date"} : given(f) # None}
           |-> Val(given(k))]

\* parsed = FALSE: request.get_json() raises (no JSON content type, bad JSON)
RequestInputs ==
    {[parsed |-> FALSE, json |-> JNull]}
    \cup {[parsed |-> TRUE, json |-> j] : j \in {JNull, JList(<<>>), JStr(<<120>>)}}
    \cup {[parsed |-> TRUE, json |-> JObj(Body(g, s, e))] :
             g \in GeometryInputs, s \in StartInputs, e \in EndInputs}

\* the catalogue holds at most MaxImages images of the pool, in system order
CatalogInputs ==
    {SelectSeq(ImagePool, LAMBDA img : img.id \in S) :
        S \in {T \in SUBSET (1..Len(ImagePool)) : Cardinality(T) <= MaxImages}}

----------------------------------------------------------------------------
(* The handler get_snow_data. *)

\* the messages of lines 152, 183 and 288, written without their accents
MissingMessage == "Faltan parametros"
NotFoundMessage == "No se encontraron imagenes para la region y periodo seleccionado"
InternalMessage == "Error interno del servidor"

CallSites ==
    {"roi_area", "collection_size", "distinct_months", "monthly_size",
     "snow_sum", "total_count", "perm_snow_sum", "min_elevation",
     "image_date", "image_id", "rgb_thumb", "snow_thumb"}
ThumbSites == {"rgb_thumb", "snow_thumb"}
MonthSites == CallSites \ {"roi_area", "collection_size", "distinct_months"}

Unbound ==
    [geometry |-> None, start_date |-> None, end_date |-> None, roi |-> None,
     total_area |-> None, collection_size |-> None, distinct_months |-> None,
     i |-> 0, results |-> None, permanent_snow_area |-> None,
     min_snow_height |-> None, max_snow_area |-> None, snow_area |-> None,
     snow_pixel_count_info |-> None, image_date |-> None, image_id |-> None,
     rgb_url |-> None]

Init ==
    /\ request \in RequestInputs
    /\ catalog \in CatalogInputs
    /\ churn = 0
    /\ pc = "receive"
    /\ h = Unbound
    /\ calls = <<>>
    /\ inflight = {}
    /\ response = None
    /\ logged = None
    /\ permLog = <<>>
    /\ renderFailed = {}
    /\ idView = <<>>

\* the handler answering with the text of the exception
InternalErrorLeaksCause(cause) ==
    /\ logged' = Some(cause)
    /\ response' = Some([status |-> 500, body |-> [error |-> cause]])
    /\ pc' = "done"

\* lines 286-288: any exception is printed and answered with the fixed 500
InternalError(cause) ==
    /\ logged' = Some(cause)
    /\ response' = Some([status |-> 500, body |-> [error |-> InternalMessage]])
    /\ pc' = "done"

\* line 143 raises, or line 147 calls .get on something that is no dict
ReceiveRaises ==
    /\ pc = "receive"
    /\ \/ ~request.parsed /\ InternalError("BadRequest")
       \/ request.parsed /\ request.json.t # "obj" /\ InternalError("AttributeError")
    /\ UNCHANGED <<request, catalog, churn, h, calls, inflight, permLog,
                   renderFailed, idView>>

\* lines 143-152 with a falsy geometry, start_date or end_date
ReceiveMissing ==
    /\ pc = "receive"
    /\ request.parsed /\ request.json.t = "obj"
    /\ LET data == request.json.o
       IN \/ ~Truthy(DictGet(data, "geometry"))
          \/ ~Truthy(DictGet(data, "start_date"))
          \/ ~Truthy(DictGet(data, "end_date"))
    /\ response' = Some([status |-> 400, body |-> [error |-> MissingMessage]])
    /\ pc' = "done"
    /\ UNCHANGED <<request, catalog, churn, h, calls, inflight, logged, permLog,
                   renderFailed, idView>>

\* lines 143-152 passing the parameter check
ReceiveOk ==
    /\ pc = "receive"
    /\ request.parsed /\ request.json.t = "obj"
    /\ LET data == request.json.o
       IN /\ Truthy(DictGet(data, "geometry"))
          /\ Truthy(DictGet(data, "start_date"))
          /\ Truthy(DictGet(data, "end_date"))
          /\ h' = [h EXCEPT !.geometry = DictGet(data, "geometry"),
                            !.start_date = DictGet(data, "start_date"),
                            !.end_date = DictGet(data, "end_date")]
    /\ pc' = "format"
    /\ UNCHANGED <<request, catalog, churn, calls, inflight, response, logged,
                   permLog, renderFailed, idView>>

\* geometry.get('coordinates', [])
Coordinates(geometry) ==
    IF "coordinates" \in DOMAIN geometry.o THEN geometry.o["coordinates"].l
    ELSE <<>>

\* lines 156-162: [lat, lon] -> [lon, lat]
FormatCoords(coordinates) ==
    [r \in DOMAIN coordinates |->
        [k \in DOMAIN coordinates[r] |->
            <<coordinates[r][k][2], coordinates[r][k][1]>>]]

\* lines 155-162 raise: geometry has no .get, or a point has no second item
FormatRaises ==
    /\ pc = "format"
    /\ LET geometry == Val(h.geometry)
       IN \/ geometry.t # "obj" /\ InternalError("AttributeError")
          \/ /\ geometry.t = "obj"
             /\ \E r \in DOMAIN Coordinates(geometry) :
                    \E k \in DOMAIN Coordinates(geometry)[r] :
                        Len(Coordinates(geometry)[r][k]) < 2
             /\ InternalError("IndexError")
    /\ UNCHANGED <<request, catalog, churn, h, calls, inflight, permLog,
                   renderFailed, idView>>

\* lines 155-164: roi = ee.Geometry.Polygon(formatted_coords)
FormatOk ==
    /\ pc = "format"
    /\ LET geometry == Val(h.geometry)
       IN /\ geometry.t = "obj"
          /\ \A r \in DOMAIN Coordinates(geometry) :
                 \A k \in DOMAIN Coordinates(geometry)[r] :
                     Len(Coordinates(geometry)[r][k]) >= 2
          /\ h' = [h EXCEPT !.roi = Some(FormatCoords(Coordinates(geometry)))]
    /\ pc' = "roi_area"
    /\ UNCHANGED <<request, catalog, churn, calls, inflight, response, logged,
                   permLog, renderFailed, idView>>
----------------------------------------------------------------------------
(* Calls to the imagery service. *)

\* the month the loop of line 200 is at
Month == h.distinct_months[h.i]

\* the lazy expressions of lines 170-177, 202 and 207, evaluated now
Col == Collection(catalog, Val(h.roi), Val(h.start_date).s, Val(h.end_date).s)
MonthCol == MonthlyCol(Col, Month)
BestImg == MonthCol[1]

\* calls that would not wait for their answer
NeverBlocked == FALSE

\* getInfo() and getThumbURL() block the handler until the service answers
Blocked == inflight # {}

\* the handler sends the request of the call it has reached
Issue ==
    /\ pc \in CallSites
    /\ ~Blocked
    /\ calls' = Append(calls, [site |-> pc,
                               month |-> IF pc \in MonthSites THEN Month ELSE <<>>])
    /\ inflight' = inflight \cup {Len(calls) + 1}
    /\ UNCHANGED <<request, catalog, churn, pc, h, response, logged, permLog,
                   renderFailed, idView>>

\* the call made at `site` is answered (or raises) and the handler resumes
Awaiting(site) == pc = site /\ \E c \in inflight : calls[c].site = site
Answered == inflight' = {c \in inflight : calls[c].site # pc}

\* line 200: the next month of the list, or the end of the loop
LoopPc(i, months) == IF i <= Len(months) THEN "monthly_size" ELSE "respond"

\* any call but the thumbnails raises: the exception reaches line 286
EEError ==
    /\ pc \in CallSites \ ThumbSites
    /\ Awaiting(pc)
    /\ Answered
    /\ InternalError("EEException")
    /\ UNCHANGED <<request, catalog, churn, h, calls, permLog, renderFailed, idView>>

\* line 167: total_area = roi.area().getInfo()
RoiAreaReply ==
    /\ Awaiting("roi_area")
    /\ Answered
    /\ h' = [h EXCEPT !.total_area = RoiArea(Val(h.roi))]
    /\ pc' = "collection_size"
    /\ UNCHANGED <<request, catalog, churn, calls, response, logged, permLog,
                   renderFailed, idView>>

\* the empty collection without the early return of line 183
CollectionEmptyFallsThrough ==
    /\ Awaiting("collection_size")
    /\ Answered
    /\ Len(Col) = 0
    /\ h' = [h EXCEPT !.collection_size = Some(0)]
    /\ pc' = "distinct_months"
    /\ UNCHANGED <<request, catalog, churn, calls, response, logged, permLog,
                   renderFailed, idView>>

\* lines 179-183 with no image: 404
CollectionEmpty ==
    /\ Awaiting("collection_size")
    /\ Answered
    /\ Len(Col) = 0
    /\ h' = [h EXCEPT !.collection_size = Some(0)]
    /\ response' = Some([status |-> 404, body |-> [error |-> NotFoundMessage]])
    /\ pc' = "done"
    /\ UNCHANGED <<request, catalog, churn, calls, logged, permLog, renderFailed,
                   idView>>

\* lines 179-188 with images
CollectionSizeReply ==
    /\ Awaiting("collection_size")
    /\ Answered
    /\ Len(Col) # 0
    /\ h' = [h EXCEPT !.collection_size = Some(Len(Col))]
    /\ pc' = "distinct_months"
    /\ UNCHANGED <<request, catalog, churn, calls, response, logged, permLog,
                   renderFailed, idView>>

\* lines 191-200: the list of months, the accumulators, the loop's start
DistinctMonthsReply ==
    /\ Awaiting("distinct_months")
    /\ Answered
    /\ h' = [h EXCEPT !.distinct_months = DistinctMonths(Col),
                      !.results = <<>>,
                      !.permanent_snow_area = 0,
                      !.min_snow_height = Infinity,
                      !.max_snow_area = 0,
                      !.i = 1]
    /\ pc' = LoopPc(1, DistinctMonths(Col))
    /\ UNCHANGED <<request, catalog, churn, calls, response, logged, permLog,
                   renderFailed, idView>>

\* lines 202-204 with an empty monthly collection: continue
MonthlyEmpty ==
    /\ Awaiting("monthly_size")
    /\ Answered
    /\ Len(MonthCol) = 0
    /\ h' = [h EXCEPT !.i = h.i + 1]
    /\ pc' = LoopPc(h.i + 1, h.distinct_months)
    /\ UNCHANGED <<request, catalog, churn, calls, response, logged, permLog,
                   renderFailed, idView>>

\* lines 202-207 otherwise: best_img = first of the month, then line 54
MonthlySizeReply ==
    /\ Awaiting("monthly_size")
    /\ Answered
    /\ Len(MonthCol) # 0
    /\ pc' = "snow_sum"
    /\ UNCHANGED <<request, catalog, churn, h, calls, response, logged, permLog,
                   renderFailed, idView>>
\* lines 54, 55, 102: a pixel count scaled to square metres
ScaleArea(count) == count * PixelArea

\* lines 98-105: what calculate_permanent_snow returns, <<area, min height>>
PermanentSnow(snow_pixel_count_info, min_elevation_info) ==
    IF IsNone(snow_pixel_count_info) \/ IsNone(min_elevation_info) THEN <<0, 0>>
    ELSE <<ScaleArea(Val(snow_pixel_count_info)), Val(min_elevation_info)>>

\* the running minimum without the test of line 218
UpdateMinHeightUnguarded(min_snow_height, min_height) ==
    PyMin(min_snow_height, min_height)

\* lines 218-219
UpdateMinHeight(min_snow_height, min_height) ==
    IF min_height > 0 THEN PyMin(min_snow_height, min_height) ELSE min_snow_height

\* the value a pixel-count call of calculate_snow_area gets back
PixelCount(site) == IF site = "snow_sum" THEN BestImg.snow ELSE BestImg.valid

\* lines 54-55: the service answers None and None * 100 raises
PixelCountNone ==
    /\ pc \in {"snow_sum", "total_count"}
    /\ Awaiting(pc)
    /\ Answered
    /\ Len(MonthCol) # 0
    /\ IsNone(PixelCount(pc))
    /\ InternalError("TypeError")
    /\ UNCHANGED <<request, catalog, churn, h, calls, permLog, renderFailed, idView>>

\* line 54: snow_area = snow_pixel_count.getInfo() * 100
\* (an ee.ComputedObject is always true, so line 52 always takes this branch)
SnowSumReply ==
    /\ Awaiting("snow_sum")
    /\ Answered
    /\ Len(MonthCol) # 0
    /\ ~IsNone(PixelCount("snow_sum"))
    /\ h' = [h EXCEPT !.snow_area = ScaleArea(Val(PixelCount("snow_sum")))]
    /\ pc' = "total_count"
    /\ UNCHANGED <<request, catalog, churn, calls, response, logged, permLog,
                   renderFailed, idView>>

\* lines 55-60 and 210-213
TotalCountReply ==
    /\ Awaiting("total_count")
    /\ Answered
    /\ Len(MonthCol) # 0
    /\ ~IsNone(PixelCount("total_count"))
    /\ h' = [h EXCEPT !.total_area = ScaleArea(Val(PixelCount("total_count"))),
                      !.max_snow_area = PyMax(h.max_snow_area, h.snow_area)]
    /\ pc' = "perm_snow_sum"
    /\ UNCHANGED <<request, catalog, churn, calls, response, logged, permLog,
                   renderFailed, idView>>

\* line 94: snow_pixel_count_info = snow_pixel_count.getInfo()
PermSnowSumReply ==
    /\ Awaiting("perm_snow_sum")
    /\ Answered
    /\ Len(MonthCol) # 0
    /\ h' = [h EXCEPT !.snow_pixel_count_info = Some(BestImg.snow)]
    /\ pc' = "min_elevation"
    /\ UNCHANGED <<request, catalog, churn, calls, response, logged, permLog,
                   renderFailed, idView>>

\* lines 95-105 and 216-219
MinElevationReply ==
    /\ Awaiting("min_elevation")
    /\ Answered
    /\ Len(MonthCol) # 0
    /\ LET ret == PermanentSnow(Val(h.snow_pixel_count_info), BestImg.elev)
       IN /\ h' = [h EXCEPT
                     !.permanent_snow_area = PyMax(h.permanent_snow_area, ret[1]),
                     !.min_snow_height = UpdateMinHeight(h.min_snow_height, ret[2])]
          /\ permLog' = Append(permLog, [month |-> Month, perm_snow_area |-> ret[1],
                                         min_height |-> ret[2]])
    /\ pc' = "image_date"
    /\ UNCHANGED <<request, catalog, churn, calls, response, logged, renderFailed,
                   idView>>

\* line 222
ImageDateReply ==
    /\ Awaiting("image_date")
    /\ Answered
    /\ Len(MonthCol) # 0
    /\ h' = [h EXCEPT !.image_date = FormatDate(BestImg.date)]
    /\ pc' = "image_id"
    /\ UNCHANGED <<request, catalog, churn, calls, response, logged, permLog,
                   renderFailed, idView>>

\* line 223
ImageIdReply ==
    /\ Awaiting("image_id")
    /\ Answered
    /\ Len(MonthCol) # 0
    /\ h' = [h EXCEPT !.image_id = BestImg.id]
    /\ idView' = Append(idView, [month |-> Month, catalog |-> catalog])
    /\ pc' = "rgb_thumb"
    /\ UNCHANGED <<request, catalog, churn, calls, response, logged, permLog,
                   renderFailed>>

\* lines 228-240
RgbThumbReply ==
    /\ Awaiting("rgb_thumb")
    /\ Answered
    /\ Len(MonthCol) # 0
    /\ h' = [h EXCEPT !.rgb_url = Some(ThumbURL("rgb", BestImg))]
    /\ pc' = "snow_thumb"
    /\ UNCHANGED <<request, catalog, churn, calls, response, logged, permLog,
                   renderFailed, idView>>

\* lines 263-271: the month's entry of results
Entry(rgb_url, snow_url) ==
    [month |-> Month, image_date |-> h.image_date, image_id |-> h.image_id,
     snow_area_m2 |-> h.snow_area, total_area_m2 |-> h.total_area,
     rgb_url |-> rgb_url, snow_url |-> snow_url]

\* lines 242-257 and 263-271, then the next month
SnowThumbReply ==
    /\ Awaiting("snow_thumb")
    /\ Answered
    /\ Len(MonthCol) # 0
    /\ h' = [h EXCEPT !.results = Append(h.results,
                                         Entry(h.rgb_url, Some(ThumbURL("snow", BestImg)))),
                      !.i = h.i + 1]
    /\ pc' = LoopPc(h.i + 1, h.distinct_months)
    /\ UNCHANGED <<request, catalog, churn, calls, response, logged, permLog,
                   renderFailed, idView>>

\* a render failure that is not caught at line 258 and reaches line 286
ThumbErrorUncaught ==
    /\ pc \in ThumbSites
    /\ Awaiting(pc)
    /\ Answered
    /\ renderFailed' = renderFailed \cup {Month}
    /\ InternalError("EEException")
    /\ UNCHANGED <<request, catalog, churn, h, calls, permLog, idView>>

\* lines 258-271: either render raises; both URLs are None, the loop goes on
ThumbError ==
    /\ pc \in ThumbSites
    /\ Awaiting(pc)
    /\ Answered
    /\ h' = [h EXCEPT !.results = Append(h.results, Entry(None, None)),
                      !.rgb_url = None,
                      !.i = h.i + 1]
    /\ renderFailed' = renderFailed \cup {Month}
    /\ pc' = LoopPc(h.i + 1, h.distinct_months)
    /\ UNCHANGED <<request, catalog, churn, calls, response, logged, permLog, idView>>

\* lines 274-275
FinalMinHeight(min_snow_height) ==
    IF min_snow_height = Infinity THEN 0 ELSE min_snow_height

\* a success body that also carries a region name
SuccessBodyWithRegionName(results, permanent_snow_area, min_snow_height, max_snow_area) ==
    [results |-> results,
     permanent_snow |-> [area_m2 |-> permanent_snow_area,
                         min_height_m |-> min_snow_height,
                         total_area_m2 |-> max_snow_area,
                         region_name |-> "Region desconocida"]]

\* lines 277-284: the success body
SuccessBody(results, permanent_snow_area, min_snow_height, max_snow_area) ==
    [results |-> results,
     permanent_snow |-> [area_m2 |-> permanent_snow_area,
                         min_height_m |-> min_snow_height,
                         total_area_m2 |-> max_snow_area]]

\* lines 273-284
Respond ==
    /\ pc = "respond"
    /\ response' = Some([status |-> 200,
                         body |-> SuccessBody(h.results, h.permanent_snow_area,
                                              FinalMinHeight(h.min_snow_height),
                                              h.max_snow_area)])
    /\ pc' = "done"
    /\ UNCHANGED <<request, catalog, churn, h, calls, inflight, logged, permLog,
                   renderFailed, idView>>

\* the catalogue loses an image while the request is being handled
Churn ==
    /\ pc \notin {"receive", "format", "done"}
    /\ churn < MaxChurn
    /\ \E k \in DOMAIN catalog :
           catalog' = SubSeq(catalog, 1, k - 1) \o SubSeq(catalog, k + 1, Len(catalog))
    /\ churn' = churn + 1
    /\ UNCHANGED <<request, pc, h, calls, inflight, response, logged, permLog,
                   renderFailed, idView>>

Next ==
    \/ ReceiveRaises \/ ReceiveMissing \/ ReceiveOk
    \/ FormatRaises \/ FormatOk
    \/ Issue \/ EEError
    \/ RoiAreaReply \/ CollectionEmpty \/ CollectionSizeReply
    \/ DistinctMonthsReply \/ MonthlyEmpty \/ MonthlySizeReply
    \/ PixelCountNone \/ SnowSumReply \/ TotalCountReply
    \/ PermSnowSumReply \/ MinElevationReply
    \/ ImageDateReply \/ ImageIdReply
    \/ RgbThumbReply \/ SnowThumbReply \/ ThumbError
    \/ Respond
    \/ Churn

Spec == Init /\ [][Next]_vars
----------------------------------------------------------------------------
(* Vocabulary of the properties. *)

Done == pc = "done"
Resp == Val(response)
Success == Done /\ Resp.status = 200
Results == Resp.body.results
Summary == Resp.body.permanent_snow
IsError(status) == Done /\ Resp.status = status /\ "error" \in DOMAIN Resp.body

Fields == {"geometry", "start_date", "end_date"}
\* the body is no JSON object, or it is one that lacks one of the three keys
SomeFieldAbsent ==
    \/ ~request.parsed
    \/ request.json.t # "obj"
    \/ request.json.t = "obj" /\ ~(Fields \subseteq DOMAIN request.json.o)

SetMin(S) == CHOOSE x \in S : \A y \in S : x <= y
SetMax(S) == CHOOSE x \in S : \A y \in S : x >= y

RECURSIVE SeqSum(_)
SeqSum(s) == IF s = <<>> THEN 0 ELSE Head(s) + SeqSum(Tail(s))

\* number of calls asking for statistic `sites` of month `month`
Asked(sites, month) ==
    Cardinality({c \in DOMAIN calls : calls[c].site \in sites /\ calls[c].month = month})

----------------------------------------------------------------------------
(* C1: every request in which geometry, start_date or end_date is absent   *)
(* (a body without them, or a body that is no JSON object) is answered     *)
(* with status 400 and an error field, never 500.                          *)
C1_AbsentFieldIs400 == (Done /\ SomeFieldAbsent) => IsError(400)

(* What does hold: a JSON object lacking a field is answered with 400. *)
C1_ObjectLackingFieldIs400 ==
    (Done /\ request.parsed /\ request.json.t = "obj" /\ SomeFieldAbsent)
        => IsError(400)

(* C2: when the service reports a filtered collection of size zero, the    *)
(* response is 404 with an error field and no per-month statistic or       *)
(* thumbnail call has been issued.                                         *)
C2_NoImagesIs404 ==
    h.collection_size = Some(0) =>
        /\ IsError(404)
        /\ \A c \in DOMAIN calls : calls[c].site \in {"roi_area", "collection_size"}

C2_Witness == Done /\ h.collection_size = Some(0) /\ Len(calls) = 2

(* C3: when a call to the imagery service other than a thumbnail render    *)
(* fails, at whatever point of the sequence, the response is the fixed     *)
(* 500 body: no partial results and not the cause of the failure.          *)
C3_ServiceFailureIsOpaque500 ==
    logged = Some("EEException") =>
        /\ Done
        /\ Resp.status = 500
        /\ DOMAIN Resp.body = {"error"}
        /\ Resp.body.error = InternalMessage
        /\ Resp.body.error # Val(logged)

C3_Witness ==
    /\ Done /\ logged = Some("EEException")
    /\ Len(h.results) >= 1
    /\ calls[Len(calls)].site = "image_id"

(* C4: on success, results is strictly ascending by month label, so no     *)
(* label appears twice.                                                    *)
C4_ResultsAscending ==
    Success => \A j, k \in DOMAIN Results :
                   j < k => StrLess(Results[j].month, Results[k].month)

C4_Witness ==
    /\ Success /\ Len(Results) = 3
    /\ catalog[1].id = 1 /\ catalog[2].id = 3

(* C5: the image_id of every entry of results is that of an image whose    *)
(* cloud percentage is least among the images of that month with cloud     *)
(* below 20, a footprint holding the region, and a date in the range (the  *)
(* catalogue being the one the service had when the id was asked).         *)
Eligible(cat, month) ==
    {img \in {cat[n] : n \in DOMAIN cat} :
        /\ img.cloud < 20
        /\ \A r \in DOMAIN Val(h.roi) : \A k \in DOMAIN Val(h.roi)[r] :
               InBox(Val(h.roi)[r][k], img.box)
        /\ ~DateLess(img.date, ParseDate(Val(h.start_date).s))
        /\ DateLess(img.date, ParseDate(Val(h.end_date).s))
        /\ FormatMonth(img.date) = month}

C5_LeastCloudyImage ==
    Success =>
        \A k \in DOMAIN Results :
            LET candidates == Eligible(idView[k].catalog, Results[k].month)
            IN /\ idView[k].month = Results[k].month
               /\ \E img \in candidates :
                      /\ img.id = Results[k].image_id
                      /\ \A other \in candidates : img.cloud <= other.cloud

C5_Witness ==
    /\ Success /\ Len(Results) >= 1
    /\ Results[1].image_id = 2
    /\ catalog[1].id = 1

(* C6 as stated: min_height_m is 0 when no processed month has a positive  *)
(* minimum snow elevation, and otherwise the minimum over all processed    *)
(* months of the month's minimum snow elevation.                           *)
MonthHeights == {permLog[k].min_height : k \in DOMAIN permLog}

C6_MinOverAllMonths ==
    Success => Summary.min_height_m =
                   IF \A x \in MonthHeights : x <= 0 THEN 0
                   ELSE SetMin(MonthHeights)

(* C6 amended: otherwise it is the minimum over the processed months whose *)
(* minimum snow elevation is positive.                                     *)
C6_MinOverPositiveMonths ==
    Success => Summary.min_height_m =
                   IF \A x \in MonthHeights : x <= 0 THEN 0
                   ELSE SetMin({x \in MonthHeights : x > 0})

C6_Witness ==
    /\ Success
    /\ \E x \in MonthHeights : x = 0
    /\ \E x \in MonthHeights : x > 0

(* C7: on success, area_m2 is the maximum over the processed months of the *)
(* month's permanent-snow area, 0 when no month is processed, and not the  *)
(* sum over the months.                                                    *)
MonthAreas == [k \in DOMAIN permLog |-> permLog[k].perm_snow_area]

C7_AreaIsMaximum ==
    Success =>
        /\ Summary.area_m2 = SetMax({0} \cup {MonthAreas[k] : k \in DOMAIN MonthAreas})
        /\ (\E j, k \in DOMAIN MonthAreas : j # k /\ MonthAreas[j] > 0 /\ MonthAreas[k] > 0)
               => Summary.area_m2 # SeqSum(MonthAreas)

C7_Witness ==
    /\ Success
    /\ \E j, k \in DOMAIN MonthAreas : j < k /\ MonthAreas[j] > MonthAreas[k]
                                        /\ MonthAreas[k] > 0

(* C8: a month whose thumbnail rendering raised keeps its entry in         *)
(* results, with its statistics and both URLs null; every other entry has  *)
(* both URLs set.                                                          *)
EntryKeys == {"month", "image_date", "image_id", "snow_area_m2", "total_area_m2",
              "rgb_url", "snow_url"}

C8_RenderFailureIsolated ==
    /\ \A m \in renderFailed : \E k \in DOMAIN h.results : h.results[k].month = m
    /\ \A k \in DOMAIN h.results :
           /\ DOMAIN h.results[k] = EntryKeys
           /\ h.results[k].month \in renderFailed
                  => h.results[k].rgb_url = None /\ h.results[k].snow_url = None
           /\ h.results[k].month \notin renderFailed
                  => h.results[k].rgb_url # None /\ h.results[k].snow_url # None
    /\ (Done /\ renderFailed # {} /\ logged = None) => Success

C8_Witness ==
    /\ Success /\ Len(Results) = 3
    /\ Results[1].rgb_url # None /\ Results[1].snow_url # None
    /\ Results[2].month \in renderFailed /\ Results[2].rgb_url = None
    /\ Results[3].snow_url # None
    /\ calls[Len(calls) - 1].site = "rgb_thumb"

OneAtATime == Cardinality(inflight) <= 1

\* no call is for an earlier month than the call before it (the calls made
\* before the loop carry the empty label, the least string)
MonthsInOrder ==
    \A i \in DOMAIN calls :
        i > 1 => ~StrLess(calls[i].month, calls[i - 1].month)

C10_EachStatisticOnce ==
    /\ OneAtATime
    /\ MonthsInOrder
    /\ Success => \A k \in DOMAIN Results :
           /\ Asked({"snow_sum", "perm_snow_sum"}, Results[k].month) = 1
           /\ Asked({"total_count"}, Results[k].month) = 1
           /\ Asked({"min_elevation"}, Results[k].month) = 1

(* C10 amended: the snow-pixel count is requested exactly twice per        *)
(* processed month (once by calculate_snow_area, once by                   *)
(* calculate_permanent_snow), the other two statistics exactly once.       *)
C10_SnowCountTwice ==
    /\ OneAtATime
    /\ MonthsInOrder
    /\ Success => \A k \in DOMAIN Results :
           /\ Asked({"snow_sum"}, Results[k].month) = 1
           /\ Asked({"perm_snow_sum"}, Results[k].month) = 1
           /\ Asked({"total_count"}, Results[k].month) = 1
           /\ Asked({"min_elevation"}, Results[k].month) = 1

C10_Witness == Success /\ Len(Results) = 3
====
